---- MODULE Spec2Model ----
(***************************************************************************)
(* Model of src/main.py: the serial acquisition thread (SerialReader.run), *)
(* the line handler MainWindow.handle_serial_data with its low-pass        *)
(* filter, the two PlotWidget series, the CSV recording session and the    *)
(* GUI-thread handlers (update_displays, start_reading, stop_reading,      *)
(* clear_plot, set_axes, connect_com_port, closeEvent).  choose_file, which *)
(* only replaces file_name by another non-empty name, is left out.         *)
(*                                                                         *)
(* Two kinds of thread exist: the GUI thread, which runs one handler at a  *)
(* time, and the SerialReader threads.  The code takes no lock, so every   *)
(* access to a field that another thread reads or writes is a step of its  *)
(* own; accesses to fields only one thread touches are merged into the     *)
(* neighbouring step.                                                      *)
(*                                                                         *)
(* Units.  Time is counted in ticks of 0.2 s, so tau = 5.0 s is 25 ticks   *)
(* and the initial dt = 0.2 s is 1 tick.  A channel value v is held as the *)
(* integer v * Dec * Tau^MaxAccepted: with at most MaxAccepted accepted    *)
(* samples every filter step divides exactly, so the arithmetic is that of *)
(* the reals (floating-point rounding is not modelled).                    *)
(***************************************************************************)
EXTENDS Integers, Sequences, FiniteSets, TLC

\* ------------------------------------------------------------------ bounds

\* Largest dt, in ticks, the filter is tried with on its own.
MaxDt == 60

\* SerialReader objects ever created (constructor + connect_com_port calls).
MaxWorkers == 2
\* Largest value of the clock time.time(), in ticks.
MaxTime == 2
\* Lines accepted by handle_serial_data over a run.
MaxAccepted == 2
\* Files opened by start_reading over a run.
MaxSessions == 2
\* Presses of the 'Limpar Grafico' buttons over a run.
MaxClears == 2

\* ------------------------------------------------------- program constants

\* tau = 5.0 s, in ticks of 0.2 s.
Tau == 25
\* dt = 0.2 s of the first sample, in ticks.
DtInitial == 1
\* Parsed floats are held in hundredths.
Dec == 100

\* PlotWidget.__init__: self.xlim, self.ylim_min, self.ylim_max.
XlimInitial == 2

YlimMinInitial == 0

YlimMaxInitial == 100

Channels == <<"T", "SP", "Erro", "Saida">>

ChannelSet == {Channels[i] : i \in 1..4}

RECURSIVE Pow(_, _)
Pow(b, n) == IF n = 0 THEN 1 ELSE b * Pow(b, n - 1)

\* One unit of a channel value is 1 / Unit.
Unit == Dec * Pow(Tau, MaxAccepted)

\* self.data / self.data_filt at construction: 0.0 on every channel.
ZeroSample == [c \in ChannelSet |-> 0]

\* --------------------------------------------------------- the serial lines
\* A line is a sequence of characters; "deg" stands for the character U+00B0.

Digits == {"0", "1", "2", "3", "4", "5", "6", "7", "8", "9"}

DigitVal(c) ==
  CASE c = "0" -> 0 [] c = "1" -> 1 [] c = "2" -> 2 [] c = "3" -> 3
    [] c = "4" -> 4 [] c = "5" -> 5 [] c = "6" -> 6 [] c = "7" -> 7
    [] c = "8" -> 8 [] c = "9" -> 9

LitT == <<"T", "(", "deg", "C", ")", "=">>

LitSP == <<" ", "S", "P", "(", "deg", "C", ")", "=">>

LitErro == <<" ", "E", "r", "r", "o", "(", "V", ")", "=">>

LitSaida == <<" ", "S", "a", "i", "d", "a", "(", "V", ")", "=">>

\* T(°C)=2.0 SP(°C)=3.0 Erro(V)=-1.0 Saida(V)=0.5
LineGood ==
  LitT \o <<"2", ".", "0">> \o LitSP \o <<"3", ".", "0">>
       \o LitErro \o <<"-", "1", ".", "0">> \o LitSaida \o <<"0", ".", "5">>

\* T(°C)=1.0 SP(°C)=1.5 Erro(V)=0.25 Saida(V)=-2.0#x : a record, then extra
\* characters.
LineTrailing ==
  LitT \o <<"1", ".", "0">> \o LitSP \o <<"1", ".", "5">>
       \o LitErro \o <<"0", ".", "2", "5">> \o LitSaida
       \o <<"-", "2", ".", "0">> \o <<"#", "x">>

LineGarbage == <<"g", "a", "r", "b", "a", "g", "e">>

\* The Saida field is missing.
LineMissing ==
  LitT \o <<"2", ".", "0">> \o LitSP \o <<"3", ".", "0">>
       \o LitErro \o <<"-", "1", ".", "0">>

\* T has no fraction: a malformed float.
LineBadFloat ==
  LitT \o <<"2">> \o LitSP \o <<"3", ".", "0">>
       \o LitErro \o <<"-", "1", ".", "0">> \o LitSaida \o <<"0", ".", "5">>

\* A record preceded by a character.
LineLeading == <<"x">> \o LineGood

\* T is negative, which the pattern allows only for Erro and Saida.
LineNegT ==
  LitT \o <<"-", "2", ".", "0">> \o LitSP \o <<"3", ".", "0">>
       \o LitErro \o <<"-", "1", ".", "0">> \o LitSaida \o <<"0", ".", "5">>

\* The non-empty lines readline() may return.
Lines ==
  <<LineGood, LineTrailing, LineGarbage, LineMissing, LineBadFloat,
    LineLeading, LineNegT>>

LineIds == 1..Len(Lines)

\* ---------------------------------------------------------------- re.match
\* Positions are 1-based; 0 is "no match".

\* The literal lit at position i of s: the position after it, or 0.
MatchLit(s, i, lit) ==
  IF i = 0 THEN 0
  ELSE IF i + Len(lit) - 1 <= Len(s)
          /\ \A j \in 1..Len(lit) : s[i + j - 1] = lit[j]
       THEN i + Len(lit)
       ELSE 0

\* \d+ is greedy: the position after the longest run of digits from i.
RECURSIVE DigitsEnd(_, _)
DigitsEnd(s, i) ==
  IF i <= Len(s) /\ s[i] \in Digits THEN DigitsEnd(s, i + 1) ELSE i

\* -? : the position after an optional minus sign.
OptMinus(s, i, signed) ==
  IF signed /\ i # 0 /\ i <= Len(s) /\ s[i] = "-" THEN i + 1 ELSE i

\* (\-?\d+\.\d+) at position i: the position after the group, or 0.
MatchFloat(s, i, signed) ==
  IF i = 0 THEN 0
  ELSE LET a == OptMinus(s, i, signed)
           b == DigitsEnd(s, a)
           c == IF b > a THEN MatchLit(s, b, <<".">>) ELSE 0
           d == IF c = 0 THEN 0 ELSE DigitsEnd(s, c)
       IN  IF c # 0 /\ d > c THEN d ELSE 0

RECURSIVE DigitsToInt(_, _, _)
DigitsToInt(s, i, j) ==
  IF j < i THEN 0 ELSE DigitsToInt(s, i, j - 1) * 10 + DigitVal(s[j])

\* float() of the group s[i..j-1], in units of 1/Dec (two fraction digits
\* are kept, which is every digit of the lines above).
ToFloat(s, i, j) ==
  LET neg == s[i] = "-"
      a == IF neg THEN i + 1 ELSE i
      dot == DigitsEnd(s, a)
      whole == DigitsToInt(s, a, dot - 1)
      nfrac == j - dot - 1
      frac == DigitsToInt(s, dot + 1, j - 1)
      hundredths == IF nfrac = 1 THEN frac * 10
                    ELSE IF nfrac = 2 THEN frac
                    ELSE frac \div Pow(10, nfrac - 2)
      v == whole * Dec + hundredths
  IN  IF neg THEN 0 - v ELSE v

\* re.match(pattern, line): the pattern is anchored at the start of the line
\* only.  The result is the end position of the match (0: None) and the four
\* groups converted by float().
ReMatch(s) ==
  LET t0 == MatchLit(s, 1, LitT)
      t1 == MatchFloat(s, t0, FALSE)
      s0 == MatchLit(s, t1, LitSP)
      s1 == MatchFloat(s, s0, FALSE)
      e0 == MatchLit(s, s1, LitErro)
      e1 == MatchFloat(s, e0, TRUE)
      o0 == MatchLit(s, e1, LitSaida)
      o1 == MatchFloat(s, o0, TRUE)
  IN  IF o1 = 0 THEN [end |-> 0, groups |-> ZeroSample]
      ELSE [end |-> o1,
            groups |-> [c \in ChannelSet |->
               CASE c = "T" -> ToFloat(s, t0, t1)
                 [] c = "SP" -> ToFloat(s, s0, s1)
                 [] c = "Erro" -> ToFloat(s, e0, e1)
                 [] c = "Saida" -> ToFloat(s, o0, o1)]]

\* `if match:` of handle_serial_data.
Accepts(s) == ReMatch(s).end # 0

\* re.match on each of the lines above.
Parsed == [i \in LineIds |-> ReMatch(Lines[i])]

\* Line i passes `if match:`.
AcceptsLine(i) == Parsed[i].end # 0

\* The schema of the line protocol: the whole line is the four-field record.
IsRecord(s) == ReMatch(s).end = Len(s) + 1


\* ------------------------------------------------------------------- state

\* Python's None for an object reference (a worker, a file, a writer).
None == 0

\* Python's None for self.last_update.
NoTime == -1

WorkerIds == 1..MaxWorkers

VARIABLES
  now,            \* time.time(), in ticks
  serial_thread,  \* MainWindow.serial_thread: None or a worker
  wk,             \* the SerialReader threads: position, fields and locals
  data,           \* MainWindow.data, in 1/Dec
  data_filt,      \* MainWindow.data_filt, in 1/Unit
  last_update,    \* MainWindow.last_update
  plot,           \* plot1, plot2: xdata, ydata1, ydata2, t0, the viewport
                  \* fields xlim, ylim_min, ylim_max and the axes' limits
  csv_file,       \* MainWindow.csv_file: None or a file object
  csv_writer,     \* MainWindow.csv_writer: None or the writer of a file object
  files,          \* the file objects open() returned: file name, open or not
  file_name,      \* MainWindow.file_name ('dados.csv' throughout)
  csv_rows,       \* the rows written through the writers, in order
  gui,            \* the GUI thread: the handler it runs and where it is in it
  lcd,            \* the values update_displays read for the four displays
  samples,        \* history: the filtered samples completed so far
  accepted,       \* history: the number of lines accepted so far
  clears,         \* history: the number of clear_plot calls so far
  overlapped      \* history: a recording operation ran during a callback

vars ==
  <<now, serial_thread, wk, data, data_filt, last_update, plot, csv_file,
    csv_writer, files, file_name, csv_rows, gui, lcd, samples, accepted,
    clears, overlapped>>

\* SerialReader.__init__: nothing opened, the stop event clear.  The history
\* fields nacc and late count the lines this worker's callback accepted and
\* the callbacks it entered after stop() was called on it.
NewWorker ==
  [pc |-> "open", ser |-> "none", stop |-> FALSE, line |-> 0, now |-> 0,
   dt |-> 0, k |-> 0, p |-> 0, tmin1 |-> 0, tmin2 |-> 0, wr |-> None,
   opens |-> 0, reported |-> 0, called |-> FALSE, looped |-> FALSE,
   cause |-> "none", nacc |-> 0, late |-> 0, xlim |-> 0, ylim_min |-> 0,
   ylim_max |-> 0]

\* A worker id no SerialReader has been created for yet.
NoWorker == [NewWorker EXCEPT !.pc = "none"]

\* The limits of a matplotlib Axes as set by ax.set_xlim(0, xlim) and
\* ax.set_ylim(ylim_min, ylim_max): the displayed window.
Window(xlim, ylim_min, ylim_max) ==
  [xmin |-> 0, xmax |-> xlim, ymin |-> ylim_min, ymax |-> ylim_max]

\* PlotWidget.__init__: empty series, the initial viewport set on the axes,
\* t0 = time.time().
NewPlot(t) ==
  [xdata |-> <<>>, ydata1 |-> <<>>, ydata2 |-> <<>>, t0 |-> t,
   xlim |-> XlimInitial, ylim_min |-> YlimMinInitial,
   ylim_max |-> YlimMaxInitial,
   ax |-> Window(XlimInitial, YlimMinInitial, YlimMaxInitial)]

\* The texts of the axes inputs that float() converts, as <<xlim, ylim,
\* ylim_ini>>; <<>> stands for a text float() rejects.
AxesInputs == {<<5, 50, 10>>}

GuiIdle == [pc |-> "idle", k |-> 0, p |-> 0, closing |-> FALSE, a |-> <<>>]

\* MainWindow.__init__: the fields, then the first SerialReader is started.
Init ==
  /\ now = 0
  /\ serial_thread = 1
  /\ wk = [w \in WorkerIds |-> IF w = 1 THEN NewWorker ELSE NoWorker]
  /\ data = ZeroSample
  /\ data_filt = ZeroSample
  /\ last_update = NoTime
  /\ plot = [p \in 1..2 |-> NewPlot(0)]
  /\ csv_file = None
  /\ csv_writer = None
  /\ files = <<>>
  /\ file_name = "dados.csv"
  /\ csv_rows = <<>>
  /\ gui = GuiIdle
  /\ lcd = ZeroSample
  /\ samples = <<>>
  /\ accepted = 0
  /\ clears = 0
  /\ overlapped = FALSE

\* The threads whose run() has begun and not yet returned.
Alive == {w \in WorkerIds : wk[w].pc \notin {"none", "done"}}

Created == {w \in WorkerIds : wk[w].pc # "none"}

\* Positions of run() outside the callback.
LoopPcs == {"open", "loop", "read"}

\* The worker is inside handle_serial_data.
InHandler(w) == wk[w].pc \notin {"none", "done"} \cup LoopPcs

\* Positions of the GUI thread inside start_reading or stop_reading.
CsvPcs == {"start_reading", "start_header", "stop_reading", "stop_writer"}

\* start_reading or stop_reading is running while a worker is inside
\* handle_serial_data.
Overlap == gui.pc \in CsvPcs /\ \E w \in WorkerIds : InHandler(w)

\* The history variable overlapped records that Overlap has occurred.
Recorded == overlapped' = (overlapped \/ Overlap')

\* time.time(): the clock is read only here, so it advances here; a call
\* returns no less than the call before it.
TimeValues == now..MaxTime

\* ------------------------------------------------------- SerialReader.run

\* The locals of handle_serial_data are dead outside it.
Returned(r) ==
  [r EXCEPT !.pc = "loop", !.line = 0, !.now = 0, !.dt = 0, !.k = 0,
            !.p = 0, !.tmin1 = 0, !.tmin2 = 0, !.wr = None, !.xlim = 0,
            !.ylim_min = 0, !.ylim_max = 0]

\* As Raised, without the `finally`: the port stays as it was.
RaisedLeavesPortOpen(r, why) ==
  [r EXCEPT !.pc = "done", !.cause = why, !.reported = @ + 1,
            !.line = 0, !.now = 0, !.dt = 0, !.k = 0, !.p = 0,
            !.tmin1 = 0, !.tmin2 = 0, !.xlim = 0, !.ylim_min = 0,
            !.ylim_max = 0]

\* except: print the error; finally: close the port if it was opened.
Raised(r, why) ==
  [r EXCEPT !.pc = "done", !.cause = why, !.reported = @ + 1,
            !.ser = IF r.ser = "open" THEN "closed" ELSE r.ser,
            !.line = 0, !.now = 0, !.dt = 0, !.k = 0, !.p = 0,
            !.tmin1 = 0, !.tmin2 = 0, !.xlim = 0, !.ylim_min = 0,
            !.ylim_max = 0]

\* serial.Serial(port, baudrate, timeout=1) returns the open port.
OpenOk(w) ==
  /\ wk[w].pc = "open"
  /\ wk' = [wk EXCEPT ![w] =
              [@ EXCEPT !.pc = "loop", !.ser = "open", !.opens = @ + 1]]
  /\ UNCHANGED <<now, serial_thread, data, data_filt, last_update, plot,
                 csv_file, csv_writer, files, file_name, csv_rows, gui, lcd,
                 samples, accepted, clears>>
  /\ Recorded

\* As OpenFails, but the failed open is tried once more.
OpenFailsRetries(w) ==
  /\ wk[w].pc = "open"
  /\ wk' = [wk EXCEPT ![w] =
              IF @.opens = 0
              THEN [@ EXCEPT !.opens = 1, !.reported = 1, !.cause = "open"]
              ELSE Raised([@ EXCEPT !.opens = @ + 1], "open")]
  /\ UNCHANGED <<now, serial_thread, data, data_filt, last_update, plot,
                 csv_file, csv_writer, files, file_name, csv_rows, gui, lcd,
                 samples, accepted, clears>>
  /\ Recorded

\* serial.Serial raises: self.ser stays None, the error is printed, run ends.
OpenFails(w) ==
  /\ wk[w].pc = "open"
  /\ wk' = [wk EXCEPT ![w] = Raised([@ EXCEPT !.opens = @ + 1], "open")]
  /\ UNCHANGED <<now, serial_thread, data, data_filt, last_update, plot,
                 csv_file, csv_writer, files, file_name, csv_rows, gui, lcd,
                 samples, accepted, clears>>
  /\ Recorded

\* As LoopTest, but the stop event is not tested: `while True`.
LoopTestIgnoresStop(w) ==
  /\ wk[w].pc = "loop"
  /\ wk' = [wk EXCEPT ![w] = [@ EXCEPT !.pc = "read", !.looped = TRUE]]
  /\ UNCHANGED <<now, serial_thread, data, data_filt, last_update, plot,
                 csv_file, csv_writer, files, file_name, csv_rows, gui, lcd,
                 samples, accepted, clears>>
  /\ Recorded

\* As LoopTest, but the port is not closed when the loop ends.
LoopTestLeavesPortOpen(w) ==
  /\ wk[w].pc = "loop"
  /\ wk' = [wk EXCEPT ![w] =
              IF @.stop
              THEN [@ EXCEPT !.pc = "done", !.cause = "stop"]
              ELSE [@ EXCEPT !.pc = "read", !.looped = TRUE]]
  /\ UNCHANGED <<now, serial_thread, data, data_filt, last_update, plot,
                 csv_file, csv_writer, files, file_name, csv_rows, gui, lcd,
                 samples, accepted, clears>>
  /\ Recorded

\* while not self._stop_event.is_set(): the test, and the finally on exit.
LoopTest(w) ==
  /\ wk[w].pc = "loop"
  /\ wk' = [wk EXCEPT ![w] =
              IF @.stop
              THEN [@ EXCEPT !.pc = "done", !.cause = "stop",
                             !.ser = "closed"]
              ELSE [@ EXCEPT !.pc = "read", !.looped = TRUE]]
  /\ UNCHANGED <<now, serial_thread, data, data_filt, last_update, plot,
                 csv_file, csv_writer, files, file_name, csv_rows, gui, lcd,
                 samples, accepted, clears>>
  /\ Recorded

\* readline() returns a non-empty line: self.callback(line) is entered.
ReadLine(w) ==
  /\ wk[w].pc = "read"
  /\ \E i \in LineIds :
       /\ AcceptsLine(i) => accepted < MaxAccepted
       /\ wk' = [wk EXCEPT ![w] =
                   [@ EXCEPT !.pc = "callback", !.line = i, !.called = TRUE,
                             !.late = IF wk[w].stop THEN @ + 1 ELSE @]]
  /\ UNCHANGED <<now, serial_thread, data, data_filt, last_update, plot,
                 csv_file, csv_writer, files, file_name, csv_rows, gui, lcd,
                 samples, accepted, clears>>
  /\ Recorded

\* readline() times out or the line strips to nothing: `if line` is false.
ReadEmpty(w) ==
  /\ wk[w].pc = "read"
  /\ wk' = [wk EXCEPT ![w] = [@ EXCEPT !.pc = "loop"]]
  /\ UNCHANGED <<now, serial_thread, data, data_filt, last_update, plot,
                 csv_file, csv_writer, files, file_name, csv_rows, gui, lcd,
                 samples, accepted, clears>>
  /\ Recorded

\* readline() raises (the device went away).
ReadFails(w) ==
  /\ wk[w].pc = "read"
  /\ wk' = [wk EXCEPT ![w] = Raised(@, "read")]
  /\ UNCHANGED <<now, serial_thread, data, data_filt, last_update, plot,
                 csv_file, csv_writer, files, file_name, csv_rows, gui, lcd,
                 samples, accepted, clears>>
  /\ Recorded

\* ------------------------------------------- MainWindow.handle_serial_data

\* A raw value in the unit of the filtered values.
Raw(v) == v * Pow(Tau, MaxAccepted)

\* As filtro_passa_baixa, but the previous value is not subtracted from the
\* new one.
filtro_passa_baixa_sem_diferenca(novo_valor, valor_filtrado_ant, dt, tau) ==
  valor_filtrado_ant + (dt * novo_valor) \div tau

\* As filtro_passa_baixa, but the correction is subtracted.
filtro_passa_baixa_sinal_trocado(novo_valor, valor_filtrado_ant, dt, tau) ==
  valor_filtrado_ant - (dt * (novo_valor - valor_filtrado_ant)) \div tau

\* y[n] = y[n-1] + (dt/tau) * (x[n] - y[n-1])
filtro_passa_baixa(novo_valor, valor_filtrado_ant, dt, tau) ==
  valor_filtrado_ant + (dt * (novo_valor - valor_filtrado_ant)) \div tau

\* `if match:` holds: self.data is replaced, now is read, dt is computed
\* from self.last_update, and self.last_update is set.
HandleMatch(w) ==
  /\ wk[w].pc = "callback"
  /\ AcceptsLine(wk[w].line)
  /\ data' = Parsed[wk[w].line].groups
  /\ accepted' = accepted + 1
  /\ \E t \in TimeValues :
       /\ now' = t
       /\ last_update' = t
       /\ wk' = [wk EXCEPT ![w] =
                   [@ EXCEPT !.pc = "filter", !.k = 1, !.now = t,
                             !.nacc = @ + 1,
                             !.dt = IF last_update = NoTime THEN DtInitial
                                    ELSE t - last_update]]
  /\ UNCHANGED <<serial_thread, data_filt, plot, csv_file, csv_writer,
                 files, file_name, csv_rows, gui, lcd, samples,
                 clears>>
  /\ Recorded

\* As HandleNoMatch, but last_update is stamped before the match is tested.
HandleNoMatchStamps(w) ==
  /\ wk[w].pc = "callback"
  /\ ~AcceptsLine(wk[w].line)
  /\ wk' = [wk EXCEPT ![w] = Returned(@)]
  /\ \E t \in TimeValues : now' = t /\ last_update' = t
  /\ UNCHANGED <<serial_thread, data, data_filt, plot, csv_file, csv_writer,
                 files, file_name, csv_rows, gui, lcd, samples, accepted,
                 clears>>
  /\ Recorded

\* `if match:` fails: the handler returns.
HandleNoMatch(w) ==
  /\ wk[w].pc = "callback"
  /\ ~AcceptsLine(wk[w].line)
  /\ wk' = [wk EXCEPT ![w] = Returned(@)]
  /\ UNCHANGED <<now, serial_thread, data, data_filt, last_update, plot,
                 csv_file, csv_writer, files, file_name, csv_rows, gui, lcd,
                 samples, accepted, clears>>
  /\ Recorded

\* One turn of `for k in self.data`: channel k of data_filt is replaced.  The
\* sample is complete after the fourth turn; then tmin1 is computed from
\* plot1.t0.
FilterChannel(w) ==
  /\ wk[w].pc = "filter"
  /\ LET k == wk[w].k
         c == Channels[k]
         y == filtro_passa_baixa(Raw(data[c]), data_filt[c], wk[w].dt, Tau)
     IN  /\ data_filt' = [data_filt EXCEPT ![c] = y]
         /\ wk' = [wk EXCEPT ![w] =
                     IF k < 4 THEN [@ EXCEPT !.k = k + 1]
                     ELSE [@ EXCEPT !.pc = "tmin1", !.k = 0]]
         /\ samples' = IF k < 4 THEN samples
                       ELSE Append(samples,
                                   [vals |-> data_filt', t |-> wk[w].now,
                                    sess |-> csv_writer])
  /\ UNCHANGED <<now, serial_thread, data, last_update, plot, csv_file,
                 csv_writer, files, file_name, csv_rows, gui, lcd, accepted,
                 clears>>
  /\ Recorded

\* `for k in self.data` as a whole, with the dt and the raw values it was
\* entered with: the same line arriving again after the same dt.
FilterAgain ==
  /\ wk[1].pc = "filter"
  /\ accepted < MaxAccepted
  /\ accepted' = accepted + 1
  /\ data_filt' = [c \in ChannelSet |->
        filtro_passa_baixa(Raw(data[c]), data_filt[c], wk[1].dt, Tau)]
  /\ UNCHANGED <<now, serial_thread, wk, data, last_update, plot, csv_file,
                 csv_writer, files, file_name, csv_rows, gui, lcd, samples,
                 clears>>
  /\ Recorded

\* tmin = (now - plot.t0) / 60.0, held in ticks (1 tick = 1/300 min).
ElapsedMin(t, t0) == t - t0

\* tmin1 = (now - self.plot1.t0) / 60.0
ReadT0Plot1(w) ==
  /\ wk[w].pc = "tmin1"
  /\ wk' = [wk EXCEPT ![w] =
              [@ EXCEPT !.pc = "tmin2",
                        !.tmin1 = ElapsedMin(wk[w].now, plot[1].t0)]]
  /\ UNCHANGED <<now, serial_thread, data, data_filt, last_update, plot,
                 csv_file, csv_writer, files, file_name, csv_rows, gui, lcd,
                 samples, accepted, clears>>
  /\ Recorded

\* tmin2 = (now - self.plot2.t0) / 60.0
ReadT0Plot2(w) ==
  /\ wk[w].pc = "tmin2"
  /\ wk' = [wk EXCEPT ![w] =
              [@ EXCEPT !.pc = "update_plot", !.p = 1, !.k = 1,
                        !.tmin2 = ElapsedMin(wk[w].now, plot[2].t0)]]
  /\ UNCHANGED <<now, serial_thread, data, data_filt, last_update, plot,
                 csv_file, csv_writer, files, file_name, csv_rows, gui, lcd,
                 samples, accepted, clears>>
  /\ Recorded

\* The channels plotted as y1 and y2: plot1 shows T and SP, plot2 Saida and
\* Erro.
PlotY1(p) == IF p = 1 THEN "T" ELSE "Saida"

PlotY2(p) == IF p = 1 THEN "SP" ELSE "Erro"

\* One statement of PlotWidget.update_plot, called for plot1 and then plot2:
\* the appends to xdata, ydata1 and ydata2, then ax.set_xlim(0, self.xlim)
\* and ax.set_ylim(self.ylim_min, self.ylim_max), each a read of every field
\* it passes and then the call.  relim() and autoscale_view() change no limit:
\* set_xlim and set_ylim, called in __init__, turn autoscaling off.
UpdatePlotStep(w) ==
  /\ wk[w].pc = "update_plot"
  /\ LET p == wk[w].p
         k == wk[w].k
         x == IF p = 1 THEN wk[w].tmin1 ELSE wk[w].tmin2
     IN  /\ plot' = [plot EXCEPT ![p] =
                  CASE k = 1 -> [@ EXCEPT !.xdata = Append(@, x)]
                    [] k = 2 -> [@ EXCEPT !.ydata1 =
                                            Append(@, data_filt[PlotY1(p)])]
                    [] k = 3 -> [@ EXCEPT !.ydata2 =
                                            Append(@, data_filt[PlotY2(p)])]
                    [] k = 5 -> [@ EXCEPT !.ax.xmin = 0,
                                          !.ax.xmax = wk[w].xlim]
                    [] k = 8 -> [@ EXCEPT !.ax.ymin = wk[w].ylim_min,
                                          !.ax.ymax = wk[w].ylim_max]
                    [] OTHER -> @]
         /\ wk' = [wk EXCEPT ![w] =
                     CASE k = 4 -> [@ EXCEPT !.k = 5, !.xlim = plot[p].xlim]
                       [] k = 6 -> [@ EXCEPT !.k = 7,
                                             !.ylim_min = plot[p].ylim_min]
                       [] k = 7 -> [@ EXCEPT !.k = 8,
                                             !.ylim_max = plot[p].ylim_max]
                       [] k = 8 /\ p = 1 ->
                            [@ EXCEPT !.p = 2, !.k = 1, !.xlim = 0,
                                      !.ylim_min = 0, !.ylim_max = 0]
                       [] k = 8 /\ p = 2 ->
                            [@ EXCEPT !.pc = "csv_test", !.p = 0, !.k = 0,
                                      !.xlim = 0, !.ylim_min = 0,
                                      !.ylim_max = 0]
                       [] OTHER -> [@ EXCEPT !.k = k + 1]]
  /\ UNCHANGED <<now, serial_thread, data, data_filt, last_update, csv_file,
                 csv_writer, files, file_name, csv_rows, gui, lcd, samples,
                 accepted,
                 clears>>
  /\ Recorded

\* `if self.csv_writer:`
CsvTest(w) ==
  /\ wk[w].pc = "csv_test"
  /\ wk' = [wk EXCEPT ![w] =
              IF csv_writer # None THEN [@ EXCEPT !.pc = "csv_write"]
              ELSE Returned(@)]
  /\ UNCHANGED <<now, serial_thread, data, data_filt, last_update, plot,
                 csv_file, csv_writer, files, file_name, csv_rows, gui, lcd,
                 samples, accepted, clears>>
  /\ Recorded

\* A row of the CSV file: the header, or the four filtered values.
HeaderRow(f) == [file |-> f, header |-> TRUE, vals |-> ZeroSample]

DataRow(f, v) == [file |-> f, header |-> FALSE, vals |-> v]

\* As CsvWriteOk, but the row is put in front of the rows written so far.
CsvWriteOkPrepends(w) ==
  /\ wk[w].pc = "csv_write"
  /\ csv_writer # None
  /\ files[csv_writer].open
  /\ csv_rows' = <<DataRow(csv_writer, data_filt)>> \o csv_rows
  /\ wk' = [wk EXCEPT ![w] = Returned(@)]
  /\ UNCHANGED <<now, serial_thread, data, data_filt, last_update, plot,
                 csv_file, csv_writer, files, file_name, gui, lcd, samples,
                 accepted, clears>>
  /\ Recorded

\* self.csv_writer.writerow([...]) writes the row.
CsvWriteOk(w) ==
  /\ wk[w].pc = "csv_write"
  /\ csv_writer # None
  /\ files[csv_writer].open
  /\ csv_rows' = Append(csv_rows, DataRow(csv_writer, data_filt))
  /\ wk' = [wk EXCEPT ![w] = Returned(@)]
  /\ UNCHANGED <<now, serial_thread, data, data_filt, last_update, plot,
                 csv_file, csv_writer, files, file_name, gui, lcd, samples,
                 accepted,
                 clears>>
  /\ Recorded

\* writerow raises OSError (the disk is full, the medium is gone): the
\* exception leaves the callback and ends run().
CsvWriteFails(w) ==
  /\ wk[w].pc = "csv_write"
  /\ csv_writer # None
  /\ files[csv_writer].open
  /\ wk' = [wk EXCEPT ![w] = Raised([@ EXCEPT !.wr = csv_writer], "csv_io")]
  /\ UNCHANGED <<now, serial_thread, data, data_filt, last_update, plot,
                 csv_file, csv_writer, files, file_name, csv_rows, gui, lcd,
                 samples, accepted, clears>>
  /\ Recorded

\* self.csv_writer is None by now (AttributeError), or its file was closed
\* (ValueError): the exception leaves the callback and ends run().
CsvWriteRaces(w) ==
  /\ wk[w].pc = "csv_write"
  /\ \/ /\ csv_writer = None
        /\ wk' = [wk EXCEPT ![w] = Raised(@, "writer_none")]
     \/ /\ csv_writer # None
        /\ ~files[csv_writer].open
        /\ wk' = [wk EXCEPT ![w] =
                    Raised([@ EXCEPT !.wr = csv_writer], "file_closed")]
  /\ UNCHANGED <<now, serial_thread, data, data_filt, last_update, plot,
                 csv_file, csv_writer, files, file_name, csv_rows, gui, lcd,
                 samples, accepted, clears>>
  /\ Recorded

\* --------------------------------------------------------- the GUI thread

\* The slots the event loop may call: the 200 ms timer and the buttons.
Handlers ==
  {"update_displays", "start_reading", "stop_reading", "clear_plot",
   "set_axes", "connect_com_port", "closeEvent"}

\* The model's bounds on what the user may still ask for.
MayCall(h) ==
  CASE h = "start_reading" -> csv_file # None \/ Len(files) < MaxSessions
    [] h = "connect_com_port" -> Cardinality(Created) < MaxWorkers
    [] h = "clear_plot" -> clears < MaxClears
    [] OTHER -> TRUE

\* The event loop calls slot h; clear_plot and set_axes are the slots of
\* plot1's or plot2's buttons, and set_axes is called with the texts of the
\* plot's inputs.
Call(h) ==
  /\ gui.pc = "idle"
  /\ MayCall(h)
  /\ \E p \in IF h \in {"clear_plot", "set_axes"} THEN 1..2 ELSE {0} :
       \E a \in IF h = "set_axes" THEN AxesInputs \cup {<<>>} ELSE {<<>>} :
         gui' = [pc |-> h, k |-> 1, p |-> p, closing |-> FALSE, a |-> a]
  /\ clears' = IF h = "clear_plot" THEN clears + 1 ELSE clears
  /\ UNCHANGED <<now, serial_thread, wk, data, data_filt, last_update, plot,
                 csv_file, csv_writer, files, file_name, csv_rows, lcd,
                 samples, accepted>>
  /\ Recorded

\* One display of update_displays: lcd_T, lcd_SP, lcd_Erro, lcd_Saida read
\* data_filt in turn.
UpdateDisplays ==
  /\ gui.pc = "update_displays"
  /\ lcd' = [lcd EXCEPT ![Channels[gui.k]] = data_filt[Channels[gui.k]]]
  /\ gui' = IF gui.k < 4 THEN [gui EXCEPT !.k = @ + 1] ELSE GuiIdle
  /\ UNCHANGED <<now, serial_thread, wk, data, data_filt, last_update, plot,
                 csv_file, csv_writer, files, file_name, csv_rows, samples,
                 accepted,
                 clears>>
  /\ Recorded

\* As StartReading, without the `if self.csv_file: return`.
StartReadingNoGuard ==
  /\ gui.pc = "start_reading"
  /\ IF Len(files) < MaxSessions
     THEN /\ files' = Append(files, [name |-> file_name, open |-> TRUE])
          /\ csv_file' = Len(files) + 1
          /\ csv_writer' = Len(files) + 1
          /\ gui' = [gui EXCEPT !.pc = "start_header"]
     ELSE /\ gui' = GuiIdle
          /\ UNCHANGED <<csv_file, csv_writer, files>>
  /\ UNCHANGED <<now, serial_thread, wk, data, data_filt, last_update, plot,
                 file_name, csv_rows, lcd, samples, accepted, clears>>
  /\ Recorded

\* start_reading up to the header: return if csv_file is set; else open the
\* file for append and create its writer.
StartReading ==
  /\ gui.pc = "start_reading"
  /\ IF csv_file # None
     THEN /\ gui' = GuiIdle
          /\ UNCHANGED <<csv_file, csv_writer, files>>
     ELSE IF file_name # ""
     THEN /\ files' = Append(files, [name |-> file_name, open |-> TRUE])
          /\ csv_file' = Len(files) + 1
          /\ csv_writer' = Len(files) + 1
          /\ gui' = [gui EXCEPT !.pc = "start_header"]
     ELSE /\ csv_writer' = None
          /\ gui' = GuiIdle
          /\ UNCHANGED <<csv_file, files>>
  /\ UNCHANGED <<now, serial_thread, wk, data, data_filt, last_update, plot,
                 file_name, csv_rows, lcd, samples, accepted, clears>>
  /\ Recorded

\* self.csv_writer.writerow(['T', 'SP', 'Erro', 'Saida'])
StartHeader ==
  /\ gui.pc = "start_header"
  /\ csv_rows' = Append(csv_rows, HeaderRow(csv_writer))
  /\ gui' = GuiIdle
  /\ UNCHANGED <<now, serial_thread, wk, data, data_filt, last_update, plot,
                 csv_file, csv_writer, files, file_name, lcd, samples,
                 accepted,
                 clears>>
  /\ Recorded

\* As StopReading, without the `self.csv_file = None`.
StopReadingKeepsFile ==
  /\ gui.pc = "stop_reading"
  /\ IF csv_file # None
     THEN files' = [files EXCEPT ![csv_file].open = FALSE]
     ELSE UNCHANGED files
  /\ gui' = [gui EXCEPT !.pc = "stop_writer"]
  /\ UNCHANGED <<now, serial_thread, wk, data, data_filt, last_update, plot,
                 csv_file, csv_writer, file_name, csv_rows, lcd, samples,
                 accepted, clears>>
  /\ Recorded

\* stop_reading, first half: if csv_file is set, close it and clear csv_file.
StopReading ==
  /\ gui.pc = "stop_reading"
  /\ IF csv_file # None
     THEN /\ files' = [files EXCEPT ![csv_file].open = FALSE]
          /\ csv_file' = None
     ELSE UNCHANGED <<files, csv_file>>
  /\ gui' = [gui EXCEPT !.pc = "stop_writer"]
  /\ UNCHANGED <<now, serial_thread, wk, data, data_filt, last_update, plot,
                 csv_writer, file_name, csv_rows, lcd, samples, accepted, clears>>
  /\ Recorded

\* stop_reading, second half: self.csv_writer = None.  Called from
\* closeEvent, the window is closed afterwards.
StopWriter ==
  /\ gui.pc = "stop_writer"
  /\ csv_writer' = None
  /\ gui' = IF gui.closing THEN [GuiIdle EXCEPT !.pc = "closed"] ELSE GuiIdle
  /\ UNCHANGED <<now, serial_thread, wk, data, data_filt, last_update, plot,
                 csv_file, files, file_name, csv_rows, lcd, samples,
                 accepted,
                 clears>>
  /\ Recorded

\* One statement of PlotWidget.clear_plot: xdata.clear(), ydata1.clear(),
\* ydata2.clear(), t0 = time.time().
ClearPlotStep ==
  /\ gui.pc = "clear_plot"
  /\ \E t \in IF gui.k = 4 THEN TimeValues ELSE {now} :
       /\ now' = t
       /\ plot' = [plot EXCEPT ![gui.p] =
            CASE gui.k = 1 -> [@ EXCEPT !.xdata = <<>>]
              [] gui.k = 2 -> [@ EXCEPT !.ydata1 = <<>>]
              [] gui.k = 3 -> [@ EXCEPT !.ydata2 = <<>>]
              [] gui.k = 4 -> [@ EXCEPT !.t0 = t]]
  /\ gui' = IF gui.k < 4 THEN [gui EXCEPT !.k = @ + 1] ELSE GuiIdle
  /\ UNCHANGED <<serial_thread, wk, data, data_filt, last_update, csv_file,
                 csv_writer, files, file_name, csv_rows, lcd, samples,
                 accepted,
                 clears>>
  /\ Recorded

\* MainWindow.set_axes and PlotWidget.set_axes, one statement at a time:
\* float() of the texts (a ValueError is swallowed and nothing changes), then
\* self.xlim, self.ylim_min (plot2 passes no ylim_ini: the default 0),
\* self.ylim_max, ax.set_xlim(0, self.xlim), ax.set_ylim(self.ylim_min,
\* self.ylim_max).
SetAxes ==
  /\ gui.pc = "set_axes"
  /\ LET p == gui.p
         a == gui.a
     IN  IF a = <<>>
         THEN /\ gui' = GuiIdle
              /\ UNCHANGED plot
         ELSE /\ plot' = [plot EXCEPT ![p] =
                   CASE gui.k = 1 -> [@ EXCEPT !.xlim = a[1]]
                     [] gui.k = 2 -> [@ EXCEPT !.ylim_min =
                                                 IF p = 1 THEN a[3] ELSE 0]
                     [] gui.k = 3 -> [@ EXCEPT !.ylim_max = a[2]]
                     [] gui.k = 4 -> [@ EXCEPT !.ax.xmin = 0,
                                               !.ax.xmax = plot[p].xlim]
                     [] gui.k = 5 -> [@ EXCEPT !.ax.ymin = plot[p].ylim_min,
                                               !.ax.ymax = plot[p].ylim_max]]
              /\ gui' = IF gui.k < 5 THEN [gui EXCEPT !.k = @ + 1]
                        ELSE GuiIdle
  /\ UNCHANGED <<now, serial_thread, wk, data, data_filt, last_update,
                 csv_file, csv_writer, files, file_name, csv_rows, lcd,
                 samples, accepted, clears>>
  /\ Recorded

\* `if self.serial_thread: self.serial_thread.stop()` of connect_com_port
\* and closeEvent: the stop event is set.
StopThread ==
  /\ gui.pc \in {"connect_com_port", "closeEvent"}
  /\ wk' = IF serial_thread # None
           THEN [wk EXCEPT ![serial_thread].stop = TRUE]
           ELSE wk
  /\ gui' = [gui EXCEPT !.pc = IF gui.pc = "closeEvent" THEN "close_join"
                               ELSE "connect_join"]
  /\ UNCHANGED <<now, serial_thread, data, data_filt, last_update, plot,
                 csv_file, csv_writer, files, file_name, csv_rows, lcd,
                 samples, accepted, clears>>
  /\ Recorded

\* As Joined, but join() does not wait.
JoinedNoWait(w) == TRUE

\* Thread.join() returns once run() has returned.
Joined(w) == wk[w].pc = "done"

\* connect_com_port: join the old thread, clear serial_thread, then create
\* and start the new SerialReader.
ConnectStart ==
  /\ gui.pc = "connect_join"
  /\ serial_thread # None => Joined(serial_thread)
  /\ LET new == CHOOSE w \in WorkerIds :
                  /\ wk[w].pc = "none"
                  /\ \A v \in WorkerIds : wk[v].pc = "none" => w <= v
     IN  /\ wk' = [wk EXCEPT ![new] = NewWorker]
         /\ serial_thread' = new
  /\ gui' = GuiIdle
  /\ UNCHANGED <<now, data, data_filt, last_update, plot, csv_file,
                 csv_writer, files, file_name, csv_rows, lcd, samples,
                 accepted,
                 clears>>
  /\ Recorded

\* closeEvent: join the thread, clear serial_thread, then call stop_reading.
CloseJoin ==
  /\ gui.pc = "close_join"
  /\ serial_thread # None => Joined(serial_thread)
  /\ serial_thread' = None
  /\ gui' = [gui EXCEPT !.pc = "stop_reading", !.closing = TRUE]
  /\ UNCHANGED <<now, wk, data, data_filt, last_update, plot, csv_file,
                 csv_writer, files, file_name, csv_rows, lcd, samples,
                 accepted,
                 clears>>
  /\ Recorded

\* ------------------------------------------------------------ the program

\* run() and handle_serial_data up to the test of csv_writer.
WorkerStep(w) ==
  \/ OpenOk(w)
  \/ OpenFails(w)
  \/ LoopTest(w)
  \/ ReadLine(w)
  \/ ReadEmpty(w)
  \/ ReadFails(w)
  \/ HandleMatch(w)
  \/ HandleNoMatch(w)
  \/ FilterChannel(w)
  \/ ReadT0Plot1(w)
  \/ ReadT0Plot2(w)
  \/ UpdatePlotStep(w)
  \/ CsvTest(w)

\* The row of handle_serial_data, reached only while a writer is set.
WorkerCsvStep(w) ==
  \/ CsvWriteOk(w)
  \/ CsvWriteFails(w)
  \/ CsvWriteRaces(w)

\* The recording controls: start_reading and stop_reading.
CsvGuiStep ==
  \/ \E h \in {"start_reading", "stop_reading"} : Call(h)
  \/ StartReading
  \/ StartHeader
  \/ StopReading
  \/ StopWriter

\* The port and the window: connect_com_port, and closeEvent with the
\* stop_reading it calls.
LifeGuiStep ==
  \/ \E h \in {"connect_com_port", "closeEvent"} : Call(h)
  \/ StopThread
  \/ ConnectStart
  \/ CloseJoin
  \/ StopReading
  \/ StopWriter

\* The 200 ms timer.
DisplayGuiStep ==
  \/ Call("update_displays")
  \/ UpdateDisplays

\* The 'Limpar Grafico' buttons.
PlotGuiStep ==
  \/ Call("clear_plot")
  \/ ClearPlotStep

\* The 'Ajustar eixos' buttons.
AxesGuiStep ==
  \/ Call("set_axes")
  \/ SetAxes

\* The recording controls and the closing of the window: closeEvent stops
\* and joins the thread and then calls stop_reading.
EndGuiStep ==
  \/ \E h \in {"start_reading", "stop_reading", "closeEvent"} : Call(h)
  \/ StartReading
  \/ StartHeader
  \/ StopReading
  \/ StopWriter
  \/ StopThread
  \/ CloseJoin

NextEnd ==
  \/ EndGuiStep
  \/ \E w \in WorkerIds : WorkerStep(w) \/ WorkerCsvStep(w)

NextCsv ==
  \/ CsvGuiStep
  \/ \E w \in WorkerIds : WorkerStep(w) \/ WorkerCsvStep(w)

NextLife ==
  \/ LifeGuiStep
  \/ \E w \in WorkerIds : WorkerStep(w)

NextDisplay ==
  \/ DisplayGuiStep
  \/ \E w \in WorkerIds : WorkerStep(w)

NextPlot ==
  \/ PlotGuiStep
  \/ \E w \in WorkerIds : WorkerStep(w)

NextAxes ==
  \/ AxesGuiStep
  \/ \E w \in WorkerIds : WorkerStep(w)

\* The filter on its own: the raw values of an accepted line, any filtered
\* values a run can have left and any dt the clock can give, at the for loop.
InitFilter ==
  /\ serial_thread = 1
  /\ \E d \in 0..MaxDt, i \in LineIds :
       /\ AcceptsLine(i)
       /\ data = Parsed[i].groups
       /\ now = d
       /\ last_update = d
       /\ wk = [w \in WorkerIds |->
                  IF w = 1
                  THEN [NewWorker EXCEPT !.pc = "filter", !.ser = "open",
                                         !.opens = 1, !.looped = TRUE,
                                         !.called = TRUE, !.line = i,
                                         !.now = d, !.dt = d, !.k = 1,
                                         !.nacc = 1]
                  ELSE NoWorker]
  /\ \/ data_filt = ZeroSample
     \/ \E i \in LineIds :
          /\ AcceptsLine(i)
          /\ data_filt = [c \in ChannelSet |-> Raw(Parsed[i].groups[c])]
  /\ plot = [p \in 1..2 |-> NewPlot(0)]
  /\ csv_file = None
  /\ csv_writer = None
  /\ files = <<>>
  /\ file_name = "dados.csv"
  /\ csv_rows = <<>>
  /\ gui = GuiIdle
  /\ lcd = ZeroSample
  /\ samples = <<>>
  /\ accepted = 0
  /\ clears = 0
  /\ overlapped = FALSE

NextFilter == FilterAgain

\* The program while the user works the recording controls.
SpecCsv == Init /\ [][NextCsv]_vars

\* The program while the user reconnects the port and closes the window.
SpecLife == Init /\ [][NextLife]_vars

\* SpecLife with every SerialReader thread scheduled again and again while
\* it has a step to take; readline() returns within its timeout of 1 s, so
\* a thread at the read has a step to take.
SpecLifeFair == SpecLife /\ \A w \in WorkerIds : WF_vars(WorkerStep(w))

\* The program with the display timer running.
SpecDisplay == Init /\ [][NextDisplay]_vars

\* The program while the user clears the plots.
SpecPlot == Init /\ [][NextPlot]_vars

\* The filter applied again and again to one raw input with one dt.
SpecFilter == InitFilter /\ [][NextFilter]_vars

\* The program while the user sets the axes of the plots.
SpecAxes == Init /\ [][NextAxes]_vars

\* The program while the user works the recording controls and then closes
\* the window.
SpecEnd == Init /\ [][NextEnd]_vars

\* ----------------------------------------------------------------- claims

\* No handler is running: the GUI thread is idle and no worker is inside
\* handle_serial_data.
Quiescent == gui.pc = "idle" /\ \A w \in WorkerIds : ~InHandler(w)

\* The filtered samples published so far, the initial one included.
Published == {ZeroSample} \cup {samples[i].vals : i \in DOMAIN samples}

\* C1: the four values one update_displays call has read are the four
\* values of one filtered sample (stated once the call has returned).
C1_DisplaysShowOneSample == gui.pc = "idle" => lcd \in Published

\* C2: at most one SerialReader is alive at any time, so a new worker is
\* started only when every earlier one has left run().
C2_AtMostOneWorkerAlive == Cardinality(Alive) <= 1

\* C2 witness: connect_com_port has started the second worker, which is
\* inside the callback, after the first one ended.
C2_Witness == wk[1].pc = "done" /\ InHandler(2) /\ serial_thread = 2

\* The data rows of file f among the first i samples, in arrival order.
RECURSIVE SessionRows(_, _)
SessionRows(f, i) ==
  IF i = 0 THEN <<>>
  ELSE SessionRows(f, i - 1)
         \o (IF samples[i].sess = f THEN <<DataRow(f, samples[i].vals)>>
             ELSE <<>>)

\* Sessions 1..n in order: each one's header, then its data rows.
RECURSIVE ExpectedRows(_)
ExpectedRows(n) ==
  IF n = 0 THEN <<>>
  ELSE ExpectedRows(n - 1) \o <<HeaderRow(n)>>
         \o SessionRows(n, Len(samples))

\* No writerow has raised.
NoWriteFailure == \A w \in WorkerIds : wk[w].cause # "csv_io"

\* C3: when start_reading, stop_reading and the samples have run one after
\* another and no write has failed, the rows written are, session by
\* session, one header and then one row per sample accepted in that session,
\* in arrival order; samples accepted while closed add no row.
C3_RowsAreHeaderThenSamples ==
  (Quiescent /\ ~overlapped /\ NoWriteFailure)
    => csv_rows = ExpectedRows(Len(files))

\* C3 witness: start, one sample, stop, start, one sample, stop has written
\* two headers and two data rows.
C3_Witness ==
  /\ Quiescent /\ ~overlapped /\ NoWriteFailure
  /\ Len(files) = 2 /\ csv_file = None /\ csv_writer = None
  /\ Len(csv_rows) = 4
  /\ \A f \in 1..2 : SessionRows(f, Len(samples)) # <<>>

\* The header rows written for file f.
Headers(f) == {i \in DOMAIN csv_rows : csv_rows[i] = HeaderRow(f)}

\* C4: start_reading called while a session is open returns at once, leaving
\* csv_file, csv_writer, the files and the rows as they were; and no session
\* ever has more than one header row.
C4_StartIsIdempotent ==
  /\ [](\A f \in DOMAIN files : Cardinality(Headers(f)) <= 1)
  /\ [][(gui.pc = "start_reading" /\ gui'.pc # "start_reading"
           /\ csv_file # None)
          => (gui'.pc = "idle"
                /\ UNCHANGED <<csv_file, csv_writer, files, csv_rows>>)]_vars

\* C4 witness: start_reading is called while the session it opened earlier
\* is open and has its header.
C4_Witness ==
  /\ gui.pc = "start_reading"
  /\ csv_file # None
  /\ files[csv_file].open
  /\ Cardinality(Headers(csv_file)) = 1

\* C5: stop_reading on a closed session writes nothing, closes nothing and
\* leaves csv_file and csv_writer None; on an open session it closes the
\* file, which was open, and clears csv_file and then csv_writer.
C5_StopIsIdempotent ==
  /\ [][(gui.pc = "stop_reading" /\ gui'.pc # "stop_reading")
          => IF csv_file = None
             THEN /\ csv_writer = None
                  /\ UNCHANGED <<csv_file, csv_writer, files, csv_rows>>
             ELSE /\ files[csv_file].open
                  /\ files' = [files EXCEPT ![csv_file].open = FALSE]
                  /\ csv_file' = None
                  /\ UNCHANGED csv_rows]_vars
  /\ [][(gui.pc = "stop_writer" /\ gui'.pc # "stop_writer")
          => /\ csv_file' = None
             /\ csv_writer' = None
             /\ UNCHANGED <<files, csv_rows>>]_vars

\* C5 witness: a second stop_reading is running after the first one closed
\* the file.
C5_Witness ==
  /\ gui.pc = "stop_reading"
  /\ csv_file = None
  /\ Len(files) >= 1
  /\ \A f \in DOMAIN files : ~files[f].open

\* An update_plot or clear_plot call on plot p is in progress.
PlotCallInProgress(p) ==
  \/ gui.pc = "clear_plot" /\ gui.p = p
  \/ \E w \in WorkerIds : wk[w].pc = "update_plot" /\ wk[w].p = p

\* C6: outside update_plot and clear_plot calls on a series, its xdata,
\* ydata1 and ydata2 have the same length.
C6_SeriesSameLength ==
  \A p \in 1..2 :
    ~PlotCallInProgress(p)
      => /\ Len(plot[p].xdata) = Len(plot[p].ydata1)
         /\ Len(plot[p].xdata) = Len(plot[p].ydata2)

\* C6, second half: the length of a series' xdata decreases only in a step
\* of clear_plot on that series.
C6_LengthDropsOnlyByClear ==
  [][\A p \in 1..2 :
       Len(plot'[p].xdata) < Len(plot[p].xdata)
         => gui.pc = "clear_plot" /\ gui.p = p]_vars

C8_AcceptedLinesAreRecords ==
  \A w \in WorkerIds :
    wk[w].pc = "filter" => IsRecord(Lines[wk[w].line])

\* C9: a worker whose open failed has ended, never entered the loop, never
\* called the callback, reported once and tried to open once.
C9_OpenFailureIsTerminal ==
  \A w \in WorkerIds :
    wk[w].cause = "open"
      => /\ wk[w].pc = "done"
         /\ ~wk[w].looped
         /\ ~wk[w].called
         /\ wk[w].reported = 1
         /\ wk[w].opens = 1
         /\ wk[w].ser = "none"

\* C9 witness: the open of the worker started by connect_com_port failed.
C9_Witness == wk[2].cause = "open"

\* C10: after a writerow of a data row has raised, the session it wrote to
\* is closed: neither csv_file nor csv_writer refers to it.
C10_FailedWriteClosesSession ==
  \A w \in WorkerIds :
    wk[w].cause = "csv_io"
      => csv_file # wk[w].wr /\ csv_writer # wk[w].wr

\* C11: a failed row write does not stop the acquisition: unless stop() was
\* called on it, the worker that met the failure is still running with its
\* port open, so the lines that follow are still filtered, published and
\* plotted.
C11_CsvFailureLeavesAcquisitionRunning ==
  \A w \in WorkerIds :
    (wk[w].cause = "csv_io" /\ ~wk[w].stop)
      => wk[w].pc # "done" /\ wk[w].ser = "open"

\* The workers stop() and join() have completed on: every worker created
\* that serial_thread no longer refers to.
Stopped == {w \in Created : w # serial_thread}

\* C12: once stop() and join() have completed on a worker, its loop has
\* exited, the port it opened is closed and it takes no further step (only
\* its stop event can still be set), so it never calls the callback again;
\* and join() returns whenever the worker has ended, whatever ended it.
C12_StopCompletesSafely ==
  /\ [](\A w \in Stopped : wk[w].pc = "done" /\ wk[w].ser # "open")
  /\ [][\A w \in WorkerIds :
          wk[w].pc = "done"
            => wk'[w] = [wk[w] EXCEPT !.stop = wk'[w].stop]]_vars
  /\ []((gui.pc \in {"connect_join", "close_join"}
          /\ serial_thread # None /\ wk[serial_thread].pc = "done")
         => ENABLED (ConnectStart \/ CloseJoin))

\* C12 witness: connect_com_port has stopped and joined a worker that had
\* already ended on a read error, and closeEvent has then stopped and joined
\* the running worker it was replaced by.
C12_Witness ==
  /\ Stopped = {1, 2}
  /\ wk[1].cause = "read"
  /\ wk[2].cause = "stop" /\ wk[2].called

\* C13: the first sample a worker's callback accepts is filtered with the
\* initial dt, whichever worker it is.
C13_FirstSampleOfWorkerUsesInitialDt ==
  \A w \in WorkerIds :
    (wk[w].pc = "filter" /\ wk[w].nacc = 1) => wk[w].dt = DtInitial

\* C14: outside clear_plot calls on a series, every x of the series counts
\* from the series' origin t0: it is at least 0 and at most the time elapsed
\* since t0.
C14_PointsCountFromOrigin ==
  \A p \in 1..2 :
    ~(gui.pc = "clear_plot" /\ gui.p = p)
      => \A i \in DOMAIN plot[p].xdata :
           /\ plot[p].xdata[i] >= 0
           /\ plot[p].xdata[i] <= ElapsedMin(now, plot[p].t0)

\* An update_plot or set_axes call on plot p is in progress.
AxesCallInProgress(p) ==
  \/ gui.pc = "set_axes" /\ gui.p = p
  \/ \E w \in WorkerIds : wk[w].pc = "update_plot" /\ wk[w].p = p

\* C15, the frame: no step of set_axes changes xdata, ydata1, ydata2 or t0
\* of a plot, and the viewport fields of a plot change only in a step of
\* set_axes on that plot, so no step of update_plot or clear_plot changes
\* them.
C15_SetAxesFrame ==
  /\ [][(gui.pc = "set_axes" /\ gui' # gui)
          => \A p \in 1..2 :
               /\ plot'[p].xdata = plot[p].xdata
               /\ plot'[p].ydata1 = plot[p].ydata1
               /\ plot'[p].ydata2 = plot[p].ydata2
               /\ plot'[p].t0 = plot[p].t0]_vars
  /\ [][\A p \in 1..2 :
          (\/ plot'[p].xlim # plot[p].xlim
           \/ plot'[p].ylim_min # plot[p].ylim_min
           \/ plot'[p].ylim_max # plot[p].ylim_max)
            => gui.pc = "set_axes" /\ gui.p = p /\ gui' # gui]_vars

\* C15: outside update_plot and set_axes calls on a plot, the window its
\* axes display is [0, xlim] x [ylim_min, ylim_max] of its viewport fields.
C15_WindowIsViewport ==
  \A p \in 1..2 :
    ~AxesCallInProgress(p)
      => plot[p].ax = Window(plot[p].xlim, plot[p].ylim_min, plot[p].ylim_max)

\* The filtered values before the sample being handled: those of the last
\* completed sample, 0 on every channel before the first.
Previous == IF samples = <<>> THEN ZeroSample ELSE samples[Len(samples)].vals

\* C16: when the filter loop of an accepted sample ends, every channel c
\* holds prev + (dt/tau) * (raw - prev), with the one dt of that sample and
\* prev the value before the sample (0 before the first); and prev = 0,
\* raw = 48.9, dt = 0.2 gives 1.956 (y = 1.956 * Unit, both sides divided by
\* Dec).
C16_FilterFormula ==
  /\ [][\A w \in WorkerIds :
          (wk[w].pc = "filter" /\ wk'[w].pc = "tmin1")
            => \A c \in ChannelSet :
                 Tau * (data_filt'[c] - Previous[c])
                   = wk[w].dt * (Raw(data[c]) - Previous[c])]_vars
  /\ [](filtro_passa_baixa(Raw(4890), 0, DtInitial, Tau) * (1000 \div Dec)
          = 1956 * (Unit \div Dec))

\* C16 witness: a second sample, arriving 0.4 s after the first, has been
\* filtered on all four channels.
C16_Witness ==
  \E w \in WorkerIds :
    /\ wk[w].pc = "tmin1"
    /\ wk[w].dt = 2
    /\ Len(samples) = 2
    /\ samples[1].vals # ZeroSample
    /\ samples[2].vals # samples[1].vals

\* The distance between a and b.
Dist(a, b) == IF a >= b THEN a - b ELSE b - a

\* A step of a channel from y to z with the raw input v brings it no farther
\* from v and not past v.
Toward(y, z, v) ==
  /\ Dist(z, v) <= Dist(y, v)
  /\ y >= v => z >= v
  /\ y <= v => z <= v

\* C17 as stated: with a constant raw input and a fixed dt, whatever the dt,
\* every filter step moves each channel toward the input.
C17_MovesTowardInput ==
  [][\A c \in ChannelSet :
       Toward(data_filt[c], data_filt'[c], Raw(data[c]))]_vars

\* C17 as amended: with a constant raw input and a fixed dt of at most tau
\* (and at least 0), every filter step moves each channel toward the input.
C17_MovesTowardInputUpToTau ==
  [][wk[1].dt <= Tau
       => \A c \in ChannelSet :
            Toward(data_filt[c], data_filt'[c], Raw(data[c]))]_vars

\* C17 witness: two steps with dt = 2 s have moved T from 0 part of the way
\* to the input.
C17_Witness ==
  /\ wk[1].pc = "filter"
  /\ accepted = 2
  /\ wk[1].dt = 10
  /\ data_filt["T"] > 0
  /\ data_filt["T"] < Raw(data["T"])

\* C18: the first row written to each session's file is its header: every
\* data row has the header of its file before it.
C18_HeaderIsFirstRow ==
  \A i \in DOMAIN csv_rows :
    ~csv_rows[i].header
      => \E j \in 1..(i - 1) : csv_rows[j] = HeaderRow(csv_rows[i].file)

\* C19: no worker is at the row write with a writer whose file is closed.
C19_NoWriteOnClosedFile ==
  \A w \in WorkerIds :
    (wk[w].pc = "csv_write" /\ csv_writer # None) => files[csv_writer].open

\* C20: a worker stop() has been called on eventually leaves run(), and it
\* enters the callback at most once after the call.
C20_StopEventuallyTerminates ==
  /\ \A w \in WorkerIds :
       (wk[w].stop /\ wk[w].pc # "none") ~> (wk[w].pc = "done")
  /\ [](\A w \in WorkerIds : wk[w].late <= 1)

\* C20 witness: stop() was called while the worker was in readline(), which
\* returned a line; the worker handled it and then left the loop.
C20_Witness ==
  \E w \in WorkerIds :
    wk[w].pc = "done" /\ wk[w].cause = "stop" /\ wk[w].late = 1

\* What ends run() after the port was opened, other than a stop request: a
\* read error, or an exception raised inside the callback.
Failures == {"read", "csv_io", "writer_none", "file_closed"}

\* C21: a worker that has left run() has no open port, and the port it
\* opened is closed, whatever ended it; the step in which a read error or a
\* callback exception occurs is the worker's last, so it enters the callback
\* never again.
C21_TerminatedWorkerHasClosedPort ==
  /\ [](\A w \in WorkerIds :
          wk[w].pc = "done"
            => /\ wk[w].ser # "open"
               /\ wk[w].opens = 1
               /\ wk[w].cause # "open" => wk[w].ser = "closed")
  /\ [][\A w \in WorkerIds :
          (wk[w].cause = "none" /\ wk'[w].cause \in Failures)
            => wk'[w].pc = "done"]_vars
  /\ [][\A w \in WorkerIds :
          wk[w].cause \in Failures
            => /\ wk'[w].pc = "done"
               /\ wk'[w].called = wk[w].called
               /\ wk'[w].late = wk[w].late
               /\ wk'[w].nacc = wk[w].nacc
               /\ wk'[w].ser = wk[w].ser]_vars

\* C21 witness: the worker was ended by an exception raised inside the
\* callback (the row write on a file stop_reading had closed), and the
\* window was closed afterwards.
C21_Witness ==
  /\ wk[1].pc = "done"
  /\ wk[1].cause = "file_closed"
  /\ wk[1].ser = "closed"
  /\ wk[1].stop
  /\ gui.pc = "closed"

\* The other plot.
Other(p) == 3 - p

\* C22, the frame and the origins: a step of clear_plot or set_axes on one
\* plot changes nothing of the other plot; tmin1 and tmin2 are the time of
\* the sample counted from plot1.t0 and from plot2.t0; and the handler's
\* append to a plot's xdata adds that plot's own tmin, as one point, and
\* changes nothing of the other plot.
C22_SeriesFrame ==
  /\ [][(gui.pc \in {"clear_plot", "set_axes"} /\ gui' # gui)
          => plot'[Other(gui.p)] = plot[Other(gui.p)]]_vars
  /\ [][\A w \in WorkerIds :
          /\ (wk[w].pc = "tmin1" /\ wk'[w].pc = "tmin2")
               => wk'[w].tmin1 = wk[w].now - plot[1].t0
          /\ (wk[w].pc = "tmin2" /\ wk'[w].pc = "update_plot")
               => wk'[w].tmin2 = wk[w].now - plot[2].t0
          /\ (wk[w].pc = "update_plot" /\ wk[w].k = 1 /\ wk'[w] # wk[w])
               => /\ plot'[wk[w].p].xdata
                       = Append(plot[wk[w].p].xdata,
                                IF wk[w].p = 1 THEN wk[w].tmin1
                                ELSE wk[w].tmin2)
                  /\ plot'[Other(wk[w].p)] = plot[Other(wk[w].p)]]_vars

\* C22, the consequence: while no clear_plot is running and the origins of
\* the two plots differ (one of them was cleared later than the other), the
\* sample being plotted has different x-values in the two series.
C22_OriginsDifferSoXDiffer ==
  \A w \in WorkerIds :
    (wk[w].pc = "update_plot" /\ gui.pc # "clear_plot"
       /\ plot[1].t0 # plot[2].t0)
      => wk[w].tmin1 # wk[w].tmin2

====
